---- MODULE Spec2Model ----
(***************************************************************************)
(* Flight-plan computation of the drone trajectory planner:                *)
(*   src/src/data_model.py        Camera, DatasetSpec, Waypoint            *)
(*   src/src/camera_utils.py      footprint, ground sampling distance      *)
(*   src/src/plan_computation.py  grid generators, travel time, total time *)
(*                                                                         *)
(* Real numbers are exact fractions <<n, d>> (d > 0, lowest terms), so     *)
(* that ceilings, comparisons and the regime switch of the speed profile   *)
(* are decided exactly.  A square root that is not rational is kept as a   *)
(* symbolic term coef * sqrt(rad).  Tangents of the gimbal and field-of-   *)
(* view angles are combined by the addition formula, which is exact.       *)
(***************************************************************************)
EXTENDS Integers, Sequences, FiniteSets, TLC

\* ------------------------------------------------------------- bounds ----
MaxScan == 3
MaxDistance == 26
DistanceSteps == 2
MaxNegative == 1
MaxPlanLen == 3

\* -------------------------------------------------- program constants ----
MsPerSec == 1000
AllowedMovementPx == 1
LoopStart == 1

\* ------------------------------------------------------ exact numbers ----
Abs(n) == IF n < 0 THEN -n ELSE n

RECURSIVE GCD(_, _)
GCD(a, b) == IF b = 0 THEN a ELSE GCD(b, a % b)

Frac(n, d) ==
    LET s == IF d < 0 THEN -1 ELSE 1
        g == GCD(Abs(n), Abs(d))
    IN  <<(s * n) \div g, (s * d) \div g>>

Num(n) == <<n, 1>>
Zero == Num(0)
One == Num(1)
Add(p, q) == Frac(p[1] * q[2] + q[1] * p[2], p[2] * q[2])
Sub(p, q) == Frac(p[1] * q[2] - q[1] * p[2], p[2] * q[2])
Mul(p, q) == Frac(p[1] * q[1], p[2] * q[2])
Div(p, q) == Frac(p[1] * q[2], p[2] * q[1])
Neg(p) == <<-p[1], p[2]>>
Lt(p, q) == p[1] * q[2] < q[1] * p[2]
Le(p, q) == p[1] * q[2] <= q[1] * p[2]
IsZero(p) == p[1] = 0
Min(p, q) == IF Lt(q, p) THEN q ELSE p
AbsNum(p) == <<Abs(p[1]), p[2]>>

\* math.ceil of a finite number
Ceil(p) == -((-p[1]) \div p[2])

IsSquare(n) == n >= 0 /\ \E r \in 0..n : r * r = n
ISqrt(n) == CHOOSE r \in 0..n : r * r = n
IsRationalSquare(p) == IsSquare(p[1]) /\ IsSquare(p[2])

\* A time value: rat + the sum of coef * sqrt(rad) over roots.
Rat(p) == [rat |-> p, roots |-> <<>>]
\* sqrt of a number >= 0: rational when the number is a rational square
Sqrt(p) ==
    IF IsRationalSquare(p)
    THEN Rat(Frac(ISqrt(p[1]), ISqrt(p[2])))
    ELSE [rat |-> Zero, roots |-> <<[coef |-> One, rad |-> p]>>]
Scale(k, v) ==
    [rat |-> Mul(k, v.rat),
     roots |-> [j \in DOMAIN v.roots |->
                   [coef |-> Mul(k, v.roots[j].coef), rad |-> v.roots[j].rad]]]
Plus(u, v) == [rat |-> Add(u.rat, v.rat), roots |-> u.roots \o v.roots]

\* Order of two time values that are each a number or a single root term.
IsNegative(v) == v.roots = <<>> /\ Lt(v.rat, Zero)
Square(v) ==
    IF v.roots = <<>> THEN Mul(v.rat, v.rat)
    ELSE Mul(Mul(v.roots[1].coef, v.roots[1].coef), v.roots[1].rad)
TimeLe(u, v) ==
    IF IsNegative(u) THEN (IF IsNegative(v) THEN Le(u.rat, v.rat) ELSE TRUE)
    ELSE IF IsNegative(v) THEN FALSE
    ELSE Le(Square(u), Square(v))
TimeEq(u, v) == TimeLe(u, v) /\ TimeLe(v, u)

\* --------------------------------------------------------- data model ----
NoValue == [unset |-> TRUE]

Camera(fx, fy, cx, cy, sensor_size_x_mm, sensor_size_y_mm, image_size_x_px, image_size_y_px) ==
    [fx |-> fx, fy |-> fy, cx |-> cx, cy |-> cy,
     sensor_size_x_mm |-> sensor_size_x_mm, sensor_size_y_mm |-> sensor_size_y_mm,
     image_size_x_px |-> image_size_x_px, image_size_y_px |-> image_size_y_px]

DatasetSpec(overlap, sidelap, height, scan_dimension_x, scan_dimension_y, exposure_time_ms, gimbal_x_deg, gimbal_y_deg) ==
    [overlap |-> overlap, sidelap |-> sidelap, height |-> height,
     scan_dimension_x |-> scan_dimension_x, scan_dimension_y |-> scan_dimension_y,
     exposure_time_ms |-> exposure_time_ms,
     gimbal_x_deg |-> gimbal_x_deg, gimbal_y_deg |-> gimbal_y_deg]

\* The fields the dataclass declares; z and the gimbal angles are commented out.
WaypointFields ==
    <<"x", "y", "surface_coord_x1", "surface_coord_x2",
      "surface_coord_y1", "surface_coord_y2">>

\* The generated __init__: one positional argument per declared field.
Waypoint(args) ==
    IF Len(args) = Len(WaypointFields)
    THEN [ok |-> TRUE,
          value |-> [f \in {WaypointFields[j] : j \in DOMAIN WaypointFields} |->
                        args[CHOOSE j \in DOMAIN WaypointFields : WaypointFields[j] = f]]]
    ELSE [ok |-> FALSE, error |-> "TypeError"]

\* ------------------------------------------------------- camera utils ----
compute_focal_length_in_mm(camera) ==
    <<Mul(camera.fx, Div(camera.sensor_size_x_mm, camera.image_size_x_px)),
      Mul(camera.fy, Div(camera.sensor_size_y_mm, camera.image_size_y_px))>>

compute_image_footprint_on_surface(camera, distance_from_surface) ==
    <<Mul(distance_from_surface, Div(camera.image_size_x_px, camera.fx)),
      Mul(distance_from_surface, Div(camera.image_size_y_px, camera.fy))>>

\* tan(radians(deg)) for the angles the inputs use
TanDeg(deg) == CASE deg = 0 -> Zero [] deg = 45 -> One [] deg = -45 -> Neg(One)
\* tan(a + b) and tan(a - b) from tan a and tan b
TanSum(ta, tb) == Div(Add(ta, tb), Sub(One, Mul(ta, tb)))
TanDiff(ta, tb) == Div(Sub(ta, tb), Add(One, Mul(ta, tb)))
\* tan(fov / 2) where fov = 2 * arctan((sensor_size / 2) / f_mm)
TanHalfFov(camera) ==
    LET f_mm == compute_focal_length_in_mm(camera)
    IN  <<Div(Div(camera.sensor_size_x_mm, Num(2)), f_mm[1]),
          Div(Div(camera.sensor_size_y_mm, Num(2)), f_mm[2])>>

compute_image_footprint_on_surface_with_gimbal_angle(camera, distance_from_surface, gimbal_x_deg, gimbal_y_deg) ==
    LET t == TanHalfFov(camera)
        gx == TanDeg(gimbal_x_deg)
        gy == TanDeg(gimbal_y_deg)
    IN  <<Mul(distance_from_surface, Sub(TanSum(gx, t[1]), TanDiff(gx, t[1]))),
          Mul(distance_from_surface, Sub(TanSum(gy, t[2]), TanDiff(gy, t[2])))>>

compute_ground_sampling_distance(camera, distance_from_surface) ==
    LET footprint == compute_image_footprint_on_surface(camera, distance_from_surface)
        gsd_x == Div(footprint[1], camera.image_size_x_px)
        gsd_y == Div(footprint[2], camera.image_size_y_px)
    IN  Min(gsd_x, gsd_y)

\* --------------------------------------------------- plan computation ----
compute_distance_between_images(camera, dataset_spec) ==
    LET footprint == compute_image_footprint_on_surface(camera, dataset_spec.height)
    IN  <<Mul(footprint[1], Sub(One, dataset_spec.overlap)),
          Mul(footprint[2], Sub(One, dataset_spec.sidelap))>>

compute_distance_between_images_with_gimbal_angle(camera, dataset_spec) ==
    LET footprint == compute_image_footprint_on_surface_with_gimbal_angle(
                         camera, dataset_spec.height,
                         dataset_spec.gimbal_x_deg, dataset_spec.gimbal_y_deg)
    IN  <<Mul(footprint[1], Sub(One, dataset_spec.overlap)),
          Mul(footprint[2], Sub(One, dataset_spec.sidelap))>>

compute_speed_during_photo_capture(camera, dataset_spec) ==
    LET gsd == compute_ground_sampling_distance(camera, dataset_spec.height)
    IN  Div(Mul(gsd, Num(AllowedMovementPx)),
            Div(dataset_spec.exposure_time_ms, Num(MsPerSec)))

\* Variant of NumOfImages that answers 0 images for a zero distance instead of
\* letting math.ceil fail.
NumOfImagesZeroGuarded(scan_dimension, distance) ==
    IF IsZero(distance)
    THEN [ok |-> TRUE, value |-> 0]
    ELSE [ok |-> TRUE, value |-> Ceil(Div(scan_dimension, distance))]

\* math.ceil(scan_dimension / distance): the quotient by a numpy zero is inf
\* (nan for 0 / 0), which math.ceil refuses.
NumOfImages(scan_dimension, distance) ==
    IF IsZero(distance)
    THEN [ok |-> FALSE,
          error |-> IF IsZero(scan_dimension) THEN "ValueError" ELSE "OverflowError"]
    ELSE [ok |-> TRUE, value |-> Ceil(Div(scan_dimension, distance))]

\* Offsets of the surface rectangle from the waypoint: <<x1, x2, y1, y2>>.
SurfaceOffsets(camera, dataset_spec) ==
    LET footprint == compute_image_footprint_on_surface(camera, dataset_spec.height)
        dx == Div(footprint[1], Num(2))
        dy == Div(footprint[2], Num(2))
    IN  <<Neg(dx), dx, Neg(dy), dy>>

SurfaceOffsetsWithGimbalAngle(camera, dataset_spec) ==
    LET t == TanHalfFov(camera)
        gx == TanDeg(dataset_spec.gimbal_x_deg)
        gy == TanDeg(dataset_spec.gimbal_y_deg)
    IN  <<Mul(dataset_spec.height, TanDiff(gx, t[1])),
          Mul(dataset_spec.height, TanSum(gx, t[1])),
          Mul(dataset_spec.height, TanDiff(gy, t[2])),
          Mul(dataset_spec.height, TanSum(gy, t[2]))>>

\* x of column nx in row ny: the direction reverses on odd rows
ColumnX(ny, nx, num_of_images_x, distance_x) ==
    IF ny % 2 = 0
    THEN Mul(Num(nx), distance_x)
    ELSE Mul(Num(num_of_images_x - nx - 1), distance_x)

RowY(ny, distance_y) == Mul(Num(ny), distance_y)

\* The positional arguments of the Waypoint built in the inner loop.
WaypointArgs(x, y, off, height, speed) ==
    <<x, y, Add(x, off[1]), Add(x, off[2]), Add(y, off[3]), Add(y, off[4]),
      height, speed>>

\* -------------------------------------------------------------- inputs ----
Cameras ==
    { Camera(Num(1), Num(1), Zero, Zero, Num(1), Num(1), Num(1), Num(1)),
      Camera(Num(2), Num(1), Zero, Zero, Num(3), Num(2), Num(3), Num(2)) }
Ratios == { Zero, Frac(1, 2), One, Frac(3, 2) }
Heights == { Num(1), Num(2) }
ExposureTimes == { Num(500) }
GimbalAngles == { 0, 45 }
ScanDimensions == { Num(n) : n \in 1..MaxScan }
DatasetSpecs ==
    { DatasetSpec(o, s, h, sx, sy, e, gx, 0) :
        o \in Ratios, s \in Ratios, h \in Heights,
        sx \in ScanDimensions, sy \in ScanDimensions,
        e \in ExposureTimes, gx \in GimbalAngles }
\* every edge of the field of view stays below 90 degrees
GimbalInRange(camera, dataset_spec) ==
    LET t == TanHalfFov(camera)
    IN  /\ Lt(Mul(AbsNum(TanDeg(dataset_spec.gimbal_x_deg)), t[1]), One)
        /\ Lt(Mul(AbsNum(TanDeg(dataset_spec.gimbal_y_deg)), t[2]), One)

\* travel-time inputs
MaxSpeeds == { Num(3), Num(5) }
MaxAccelerations == { Num(-1), Zero, Num(1) }
CaptureSpeeds == { Zero, Num(2), Num(3), Num(5) }
CaptureTimes == { Num(200) }
Distances == { Frac(n, DistanceSteps) :
                 n \in (-(MaxNegative * DistanceSteps))..(MaxDistance * DistanceSteps) }

\* waypoint lists handed to the total-time computation; every leg is rational
PlanXs == { Zero, Num(3) }
PlanYs == { Zero, Num(4) }
PlanPoints ==
    { Waypoint(<<x, y, Sub(x, One), Add(x, One), Sub(y, One), Add(y, One)>>).value :
        x \in PlanXs, y \in PlanYs }
Plans == UNION { [1..n -> PlanPoints] : n \in 0..MaxPlanLen }

\* --------------------------------------------------------- travel time ----
Raise(error) == [ok |-> FALSE, error |-> error]
Return(value) == [ok |-> TRUE, value |-> value]

\* Variant of TriangularProfile that clamps a negative argument of the root to 0.
TriangularProfileClamped(distance_m, max_acceleration_m_per_sec2) ==
    LET arg == Div(Div(distance_m, Num(2)), max_acceleration_m_per_sec2)
    IN  [ok |-> TRUE,
         value |-> Scale(Num(2), Sqrt(IF Lt(arg, Zero) THEN Zero ELSE arg))]

\* triangular speed profile: math.sqrt refuses a negative argument
TriangularProfile(distance_m, max_acceleration_m_per_sec2) ==
    LET arg == Div(Div(distance_m, Num(2)), max_acceleration_m_per_sec2)
    IN  IF Lt(arg, Zero)
        THEN Raise("ValueError")
        ELSE Return(Scale(Num(2), Sqrt(arg)))

\* trapezoidal speed profile
TrapezoidalProfile(distance_m, max_speed_m_per_sec, acceleration_time, acceleration_distance) ==
    LET d_constant == Sub(distance_m, Mul(Num(2), acceleration_distance))
        t_constant == Div(d_constant, max_speed_m_per_sec)
    IN  Return(Rat(Add(Mul(Num(2), acceleration_time), t_constant)))

AccelerationTime(max_speed_m_per_sec, max_acceleration_m_per_sec2, capture_speed_m_per_sec) ==
    Div(Sub(max_speed_m_per_sec, capture_speed_m_per_sec), max_acceleration_m_per_sec2)

AccelerationDistance(max_speed_m_per_sec, max_acceleration_m_per_sec2, capture_speed_m_per_sec) ==
    LET acceleration_time == AccelerationTime(max_speed_m_per_sec,
                                 max_acceleration_m_per_sec2, capture_speed_m_per_sec)
    IN  Add(Mul(capture_speed_m_per_sec, acceleration_time),
            Div(Mul(max_acceleration_m_per_sec2,
                    Mul(acceleration_time, acceleration_time)), Num(2)))

compute_travel_time_between_waypoints(distance_m, max_speed_m_per_sec, max_acceleration_m_per_sec2, capture_speed_m_per_sec) ==
    IF IsZero(max_acceleration_m_per_sec2)
    THEN Raise("ZeroDivisionError")
    ELSE LET acceleration_time == AccelerationTime(max_speed_m_per_sec,
                     max_acceleration_m_per_sec2, capture_speed_m_per_sec)
             acceleration_distance == AccelerationDistance(max_speed_m_per_sec,
                     max_acceleration_m_per_sec2, capture_speed_m_per_sec)
         IN  IF Lt(distance_m, Mul(acceleration_distance, Num(2)))
             THEN TriangularProfile(distance_m, max_acceleration_m_per_sec2)
             ELSE TrapezoidalProfile(distance_m, max_speed_m_per_sec,
                                     acceleration_time, acceleration_distance)

\* ---------------------------------------------------------- total time ----
DistanceTravelledWhileCapturing(capture_speed_m_per_sec, capture_time_ms) ==
    Mul(capture_speed_m_per_sec, Div(capture_time_ms, Num(MsPerSec)))

\* np.sqrt of the squared planar distance of two waypoints
SquaredDistance(a, b) ==
    Add(Mul(Sub(b.x, a.x), Sub(b.x, a.x)), Mul(Sub(b.y, a.y), Sub(b.y, a.y)))
PlanarDistance(a, b) == Sqrt(SquaredDistance(a, b)).rat
RationalLegs(wps) ==
    \A j \in 1..(Len(wps) - 1) : IsRationalSquare(SquaredDistance(wps[j], wps[j + 1]))

\* Variant of LastCaptureTime that adds the capture time unconditionally.
LastCaptureTimeAlways(wps, capture_time_ms) == capture_time_ms

\* the capture time of the last waypoint
LastCaptureTime(wps, capture_time_ms) ==
    IF Len(wps) > 0 THEN capture_time_ms ELSE Zero

\* --------------------------------------------------------------- state ----
VARIABLES
    pc,            \* "idle", "gen_outer", "gen_inner", "travel", "time_loop", "done"
    op,            \* the function that was called
    camera,        \* generator input
    dataset_spec,  \* generator input
    loc,           \* the generator's local variables
    waypoints,     \* the generator's list under construction / total-time input
    outcome,       \* how the call ended: returned (with value) or raised (with error)
    calls,         \* evaluations of compute_travel_time_between_waypoints, in order
    kin            \* the total-time computation's arguments and local variables

vars == <<pc, op, camera, dataset_spec, loc, waypoints, outcome, calls, kin>>

Pending == [status |-> "none"]
Returned(value) == [status |-> "returned", value |-> value]
Raised(error) == [status |-> "raised", error |-> error]

Init ==
    /\ pc = "idle"
    /\ op = "none"
    /\ camera = NoValue
    /\ dataset_spec = NoValue
    /\ loc = NoValue
    /\ waypoints = <<>>
    /\ outcome = Pending
    /\ calls = <<>>
    /\ kin = NoValue

\* Lines up to the loops of either generator: distances, image counts, speed,
\* surface offsets.  math.ceil raises before any waypoint exists.
GenerateSetup(name, c, ds, distance, off) ==
    LET num_x == NumOfImages(ds.scan_dimension_x, distance[1])
        num_y == NumOfImages(ds.scan_dimension_y, distance[2])
    IN  /\ op' = name
        /\ camera' = c
        /\ dataset_spec' = ds
        /\ waypoints' = <<>>
        /\ UNCHANGED <<calls, kin>>
        /\ IF ~num_x.ok \/ ~num_y.ok
           THEN /\ pc' = "done"
                /\ outcome' = Raised(IF ~num_x.ok THEN num_x.error ELSE num_y.error)
                /\ loc' = [distance_x |-> distance[1], distance_y |-> distance[2]]
           ELSE /\ pc' = "gen_outer"
                /\ outcome' = Pending
                /\ loc' = [distance_x |-> distance[1], distance_y |-> distance[2],
                           num_of_images_x |-> num_x.value,
                           num_of_images_y |-> num_y.value,
                           speed |-> compute_speed_during_photo_capture(c, ds),
                           off |-> off, ny |-> 0, nx |-> 0]

generate_photo_plan_on_grid ==
    /\ pc = "idle"
    /\ \E c \in Cameras, ds \in DatasetSpecs :
         /\ ds.gimbal_x_deg = 0 /\ ds.gimbal_y_deg = 0
         /\ GenerateSetup("generate_photo_plan_on_grid", c, ds,
                          compute_distance_between_images(c, ds),
                          SurfaceOffsets(c, ds))

generate_photo_plan_on_grid_with_gimbal_angle ==
    /\ pc = "idle"
    /\ \E c \in Cameras, ds \in DatasetSpecs :
         /\ GimbalInRange(c, ds)
         /\ GenerateSetup("generate_photo_plan_on_grid_with_gimbal_angle", c, ds,
                          compute_distance_between_images_with_gimbal_angle(c, ds),
                          SurfaceOffsetsWithGimbalAngle(c, ds))

\* for ny in range(num_of_images_y): ...; return waypoints
GenerateOuterLoop ==
    /\ pc = "gen_outer"
    /\ IF loc.ny < loc.num_of_images_y
       THEN /\ pc' = "gen_inner"
            /\ loc' = [loc EXCEPT !.nx = 0]
            /\ UNCHANGED outcome
       ELSE /\ pc' = "done"
            /\ outcome' = Returned(waypoints)
            /\ UNCHANGED loc
    /\ UNCHANGED <<op, camera, dataset_spec, waypoints, calls, kin>>

\* for nx in range(num_of_images_x): waypoints.append(Waypoint(...))
GenerateInnerLoop ==
    /\ pc = "gen_inner"
    /\ IF loc.nx < loc.num_of_images_x
       THEN LET x == ColumnX(loc.ny, loc.nx, loc.num_of_images_x, loc.distance_x)
                y == RowY(loc.ny, loc.distance_y)
                w == Waypoint(WaypointArgs(x, y, loc.off, dataset_spec.height,
                                           loc.speed))
            IN  IF w.ok
                THEN /\ waypoints' = Append(waypoints, w.value)
                     /\ loc' = [loc EXCEPT !.nx = loc.nx + 1]
                     /\ UNCHANGED <<pc, outcome>>
                ELSE /\ pc' = "done"
                     /\ outcome' = Raised(w.error)
                     /\ UNCHANGED <<waypoints, loc>>
       ELSE /\ pc' = "gen_outer"
            /\ loc' = [loc EXCEPT !.ny = loc.ny + 1]
            /\ UNCHANGED <<waypoints, outcome>>
    /\ UNCHANGED <<op, camera, dataset_spec, calls, kin>>

\* One evaluation of the travel time, as the log records it.
Call(distance_m, max_speed, max_acc, capture_speed) ==
    [distance_m |-> distance_m, max_speed_m_per_sec |-> max_speed,
     max_acceleration_m_per_sec2 |-> max_acc,
     capture_speed_m_per_sec |-> capture_speed,
     result |-> compute_travel_time_between_waypoints(
                    distance_m, max_speed, max_acc, capture_speed)]

\* a direct call of compute_travel_time_between_waypoints
TravelTimeCall ==
    /\ pc = "idle"
    /\ \E d \in Distances, v \in MaxSpeeds, a \in MaxAccelerations, s \in CaptureSpeeds :
         LET c == Call(d, v, a, s)
         IN  /\ calls' = <<c>>
             /\ outcome' = IF c.result.ok THEN Returned(c.result.value)
                           ELSE Raised(c.result.error)
    /\ pc' = "travel"
    /\ op' = "compute_travel_time_between_waypoints"
    /\ UNCHANGED <<camera, dataset_spec, loc, waypoints, kin>>

\* a second call with the same vehicle limits and a distance no shorter
TravelTimeCallAgain ==
    /\ pc = "travel"
    /\ calls[1].result.ok
    /\ \E d \in Distances :
         /\ Le(calls[1].distance_m, d)
         /\ LET c == Call(d, calls[1].max_speed_m_per_sec,
                          calls[1].max_acceleration_m_per_sec2,
                          calls[1].capture_speed_m_per_sec)
            IN  /\ calls' = Append(calls, c)
                /\ outcome' = IF c.result.ok THEN Returned(c.result.value)
                              ELSE Raised(c.result.error)
    /\ pc' = "done"
    /\ UNCHANGED <<op, camera, dataset_spec, loc, waypoints, kin>>

\* compute_total_time_for_photos, up to the loop
TotalTimeCall ==
    /\ pc = "idle"
    /\ \E wps \in Plans, v \in MaxSpeeds, a \in MaxAccelerations,
          s \in CaptureSpeeds, t \in CaptureTimes :
         /\ RationalLegs(wps)
         /\ waypoints' = wps
         /\ kin' = [max_speed_m_per_sec |-> v, max_acceleration_m_per_sec2 |-> a,
                    capture_speed_m_per_sec |-> s, capture_time_ms |-> t,
                    total_time |-> Rat(Zero),
                    distance_travelled_while_capturing |->
                        DistanceTravelledWhileCapturing(s, t),
                    i |-> LoopStart]
    /\ pc' = "time_loop"
    /\ op' = "compute_total_time_for_photos"
    /\ calls' = <<>>
    /\ UNCHANGED <<camera, dataset_spec, loc, outcome>>

\* for i in range(1, len(waypoints)): one leg; after the loop, the last
\* capture time and the return
TotalTimeLoop ==
    /\ pc = "time_loop"
    /\ IF kin.i < Len(waypoints)
       THEN LET distance == Sub(PlanarDistance(waypoints[kin.i], waypoints[kin.i + 1]),
                                kin.distance_travelled_while_capturing)
                c == Call(distance, kin.max_speed_m_per_sec,
                          kin.max_acceleration_m_per_sec2,
                          kin.capture_speed_m_per_sec)
            IN  /\ calls' = Append(calls, c)
                /\ IF c.result.ok
                   THEN /\ kin' = [kin EXCEPT
                                     !.total_time = Plus(kin.total_time,
                                         Plus(c.result.value, Rat(kin.capture_time_ms))),
                                     !.i = kin.i + 1]
                        /\ UNCHANGED <<pc, outcome>>
                   ELSE /\ pc' = "done"
                        /\ outcome' = Raised(c.result.error)
                        /\ UNCHANGED kin
       ELSE /\ pc' = "done"
            /\ kin' = [kin EXCEPT !.total_time =
                         Plus(kin.total_time,
                              Rat(LastCaptureTime(waypoints, kin.capture_time_ms)))]
            /\ outcome' = Returned(kin'.total_time)
            /\ UNCHANGED calls
    /\ UNCHANGED <<op, camera, dataset_spec, loc, waypoints>>

Next ==
    \/ generate_photo_plan_on_grid
    \/ generate_photo_plan_on_grid_with_gimbal_angle
    \/ GenerateOuterLoop
    \/ GenerateInnerLoop
    \/ TravelTimeCall
    \/ TravelTimeCallAgain
    \/ TotalTimeCall
    \/ TotalTimeLoop

Spec == Init /\ [][Next]_vars

\* ------------------------------------------------------------- claims ----
Generators ==
    {"generate_photo_plan_on_grid", "generate_photo_plan_on_grid_with_gimbal_angle"}
GenerateDone == pc = "done" /\ op \in Generators
GridDone == pc = "done" /\ op = "generate_photo_plan_on_grid"
PositiveDistances == Lt(Zero, loc.distance_x) /\ Lt(Zero, loc.distance_y)
ExpectedNumX == Ceil(Div(dataset_spec.scan_dimension_x, loc.distance_x))
ExpectedNumY == Ceil(Div(dataset_spec.scan_dimension_y, loc.distance_y))
HasField(w, f) == f \in DOMAIN w

\* C1: for a valid camera and dataset spec, either generator returns a plan
\* whose every waypoint has z = dataset_spec.height and speed_m_per_sec =
\* compute_speed_during_photo_capture(camera, dataset_spec).
C1_WaypointsCarryHeightAndSpeed ==
    (GenerateDone /\ PositiveDistances) =>
        /\ outcome.status = "returned"
        /\ \A k \in DOMAIN outcome.value :
             /\ HasField(outcome.value[k], "z")
             /\ HasField(outcome.value[k], "speed_m_per_sec")
             /\ outcome.value[k].z = dataset_spec.height
             /\ outcome.value[k].speed_m_per_sec =
                    compute_speed_during_photo_capture(camera, dataset_spec)

\* C2: with distance_x > 0 and distance_y > 0 the plan returned by
\* generate_photo_plan_on_grid has exactly
\* ceil(scan_dimension_x / distance_x) * ceil(scan_dimension_y / distance_y)
\* waypoints.
C2_PlanLength ==
    (GridDone /\ PositiveDistances) =>
        /\ outcome.status = "returned"
        /\ Len(outcome.value) = ExpectedNumX * ExpectedNumY

\* C3: the waypoint at index ny * num_x + nx has y = ny * distance_y, and
\* x = nx * distance_x on even rows, x = (num_x - nx - 1) * distance_x on odd
\* rows.
C3_BoustrophedonOrder ==
    (GenerateDone /\ PositiveDistances) =>
        /\ outcome.status = "returned"
        /\ Len(outcome.value) = ExpectedNumX * ExpectedNumY
        /\ \A ny \in 0..(ExpectedNumY - 1), nx \in 0..(ExpectedNumX - 1) :
             LET w == outcome.value[ny * ExpectedNumX + nx + 1]
             IN  /\ w.y = Mul(Num(ny), loc.distance_y)
                 /\ w.x = IF ny % 2 = 0
                          THEN Mul(Num(nx), loc.distance_x)
                          ELSE Mul(Num(ExpectedNumX - nx - 1), loc.distance_x)

\* C4: in the plan returned by generate_photo_plan_on_grid the largest
\* surface_coord_x2 is >= scan_dimension_x and the largest surface_coord_y2
\* is >= scan_dimension_y.
C4_FullCoverage ==
    (GridDone /\ PositiveDistances) =>
        /\ outcome.status = "returned"
        /\ \E k \in DOMAIN outcome.value :
             Le(dataset_spec.scan_dimension_x, outcome.value[k].surface_coord_x2)
        /\ \E k \in DOMAIN outcome.value :
             Le(dataset_spec.scan_dimension_y, outcome.value[k].surface_coord_y2)

ValidKinematics(c) ==
    /\ Lt(Zero, c.max_acceleration_m_per_sec2)
    /\ Le(Zero, c.capture_speed_m_per_sec)
    /\ Lt(c.capture_speed_m_per_sec, c.max_speed_m_per_sec)
RegimeSwitch(c) ==
    Mul(Num(2), AccelerationDistance(c.max_speed_m_per_sec,
                    c.max_acceleration_m_per_sec2, c.capture_speed_m_per_sec))

\* C5: with max_speed = 5, max_accel = 1, capture_speed = 0 the time returned
\* at the regime switch (distance = 2 * accel_distance = 25, trapezoidal
\* branch) equals the limit of the triangular branch at that distance.
C5_ContinuousAtRegimeSwitch ==
    \A j \in DOMAIN calls :
        LET c == calls[j]
        IN  ( /\ c.max_speed_m_per_sec = Num(5)
              /\ c.max_acceleration_m_per_sec2 = Num(1)
              /\ c.capture_speed_m_per_sec = Zero
              /\ c.distance_m = RegimeSwitch(c) ) =>
                /\ c.result.ok
                /\ TimeEq(c.result.value,
                          TriangularProfile(c.distance_m,
                                            c.max_acceleration_m_per_sec2).value)

\* C6 as claimed: the travel time fails, and returns no time value, whenever
\* max_speed <= capture_speed, or max_accel <= 0, or the distance is negative.
C6_InvalidKinematicsFails ==
    \A j \in DOMAIN calls :
        LET c == calls[j]
        IN  ( \/ Le(c.max_speed_m_per_sec, c.capture_speed_m_per_sec)
              \/ Le(c.max_acceleration_m_per_sec2, Zero)
              \/ Lt(c.distance_m, Zero) ) => ~c.result.ok

\* C6 as amended: the travel time fails, and returns no time value, when
\* max_accel = 0 (ZeroDivisionError) and when max_accel > 0,
\* 0 <= capture_speed < max_speed and the distance is negative (ValueError);
\* no other error is raised, and a failed leg makes
\* compute_total_time_for_photos fail with the same error and no total.
C6_TravelTimeFailures ==
    /\ \A j \in DOMAIN calls :
         LET c == calls[j]
         IN  /\ IsZero(c.max_acceleration_m_per_sec2) =>
                    c.result = Raise("ZeroDivisionError")
             /\ (ValidKinematics(c) /\ Lt(c.distance_m, Zero)) =>
                    c.result = Raise("ValueError")
             /\ ~c.result.ok => c.result.error \in {"ZeroDivisionError", "ValueError"}
    /\ (op = "compute_total_time_for_photos" /\ pc = "done") =>
         IF \E j \in DOMAIN calls : ~calls[j].result.ok
         THEN outcome = Raised(calls[Len(calls)].result.error)
         ELSE outcome.status = "returned"

\* a leg of the total-time computation shorter than the distance travelled
\* while capturing has failed the whole computation
C6_Witness ==
    /\ op = "compute_total_time_for_photos"
    /\ pc = "done"
    /\ Len(calls) = 2
    /\ ValidKinematics(calls[2])
    /\ Lt(calls[2].distance_m, Zero)
    /\ outcome = Raised("ValueError")

\* C7 as claimed: generate_photo_plan_on_grid fails whenever distance_x <= 0
\* or distance_y <= 0 and returns no waypoint list, not even an empty one.
C7_NonPositiveDistanceFails ==
    (GridDone /\ ~PositiveDistances) => outcome.status = "raised"

\* C7 as amended: when distance_x <= 0 or distance_y <= 0,
\* generate_photo_plan_on_grid never holds a waypoint; it fails with the
\* OverflowError of math.ceil when a distance is 0 and returns the empty plan
\* when none is 0 and one is negative.
C7_NonPositiveDistanceOutcome ==
    (op = "generate_photo_plan_on_grid" /\ ~PositiveDistances) =>
        /\ waypoints = <<>>
        /\ pc = "done" =>
             IF IsZero(loc.distance_x) \/ IsZero(loc.distance_y)
             THEN outcome = Raised("OverflowError")
             ELSE outcome = Returned(<<>>)

\* a negative distance_x with rows to fly: the empty plan is returned
C7_Witness ==
    /\ GridDone
    /\ Lt(loc.distance_x, Zero)
    /\ Lt(Zero, loc.distance_y)
    /\ loc.ny > 0
    /\ outcome = Returned(<<>>)

\* C8: compute_total_time_for_photos returns 0 for an empty waypoint list and
\* capture_time_ms for a list of one waypoint, whatever the vehicle limits,
\* and evaluates no travel time in either case.
C8_EmptyAndSingletonPlan ==
    (op = "compute_total_time_for_photos" /\ pc = "done" /\ Len(waypoints) <= 1) =>
        /\ calls = <<>>
        /\ outcome = Returned(Rat(IF Len(waypoints) = 0 THEN Zero
                                  ELSE kin.capture_time_ms))

\* a single waypoint and capture_time_ms = 200 have returned 200
C8_Witness ==
    /\ op = "compute_total_time_for_photos"
    /\ pc = "done"
    /\ Len(waypoints) = 1
    /\ kin.capture_time_ms = Num(200)
    /\ IsZero(kin.max_acceleration_m_per_sec2)
    /\ outcome = Returned(Rat(Num(200)))

\* C10: for max_accel > 0 and 0 <= capture_speed < max_speed, the travel
\* time is non-decreasing in the distance over distances >= 0.
C10_MonotoneInDistance ==
    ( /\ op = "compute_travel_time_between_waypoints"
      /\ Len(calls) = 2
      /\ ValidKinematics(calls[1])
      /\ Le(Zero, calls[1].distance_m)
      /\ Le(calls[1].distance_m, calls[2].distance_m) ) =>
        /\ calls[1].result.ok
        /\ calls[2].result.ok
        /\ TimeLe(calls[1].result.value, calls[2].result.value)

====
